---- MODULE Spec2Model ----
(***************************************************************************)
(* A model of the MultiBandit repository:                                  *)
(*   - the arm class Bandit and the epsilon-greedy engine MultiBandit of   *)
(*     the package (multibandit/bandit.py),                                *)
(*   - the array-based MultiBandit and simulate_bandit (multibandit.py),   *)
(*   - the function MultiBandit(epsilon, theta, time) (Multibandit.py),    *)
(*   - two package engines constructed from one list of arms,              *)
(*   - the GraphEmitter (multibandit/graph_emitter.py),                    *)
(*   - ci_halfwidth (ci_utils.py) and the sweeps and plots of              *)
(*     experiment_ar.py, one execution or two side by side.                *)
(* Floating-point values are modelled as exact rationals <<num, den>> in   *)
(* lowest terms; arm indices are 0-based as in the source.                 *)
(***************************************************************************)
EXTENDS Integers, Sequences, FiniteSets, TLC

VARIABLES
  prog,            \* which program of the repository runs: "arm", "package",
                   \* "array", "function", "shared" (two package engines
                   \* constructed from one list of arms), "emitter",
                   \* "ci" (ci_halfwidth on its own), "sweep", "twin" (two
                   \* executions of run_experiment_over_Ks side by side)
  pc,              \* position: "ready" (an object to call), "loop" (inside
                   \* simulate_bandit), "returned", "failed" (construction or
                   \* simulate_bandit raised)
  op,              \* the operation executed last
  arg,             \* its argument (run: num_iterations; select_arm_ucb: t)
  ret,             \* its return value (an arm index), None otherwise
  err,             \* the exception it raised, None otherwise
  branch,          \* the branch the last arm selection took
  \* Bandit (one arm on its own)
  bandit,          \* the Bandit object, None before construction
  fed,             \* rewards supplied to bandit.update so far, in order
  \* package engine MultiBandit(bandits, epsilon)
  bandits,         \* [0..K-1 -> Bandit]
  epsilon, total_reward, num_iterations,
  history,         \* sequence of the records run_iteration appended
  \* array-based MultiBandit(n_arms) and simulate_bandit
  n_arms,
  counts, values,  \* [0..n_arms-1 -> number]
  rewards,         \* [0..n_arms-1 -> sequence of rewards]
  strategy,        \* simulate_bandit's strategy, None for an engine used directly
  n_iterations,    \* simulate_bandit's n_iterations
  t,               \* simulate_bandit's loop index
  beta_params,     \* the Beta parameters of the last Thompson draw, per arm
  \* function MultiBandit(epsilon, theta, time) of Multibandit.py
  arms,            \* [0..K-1 -> [theta, numOfTimes, rewords]]
  fn_epsilon,      \* its argument epsilon
  time,            \* its argument time
  fn_t,            \* passes of its loop completed
  \* a second package engine constructed from the same list of arms
  second,          \* its own fields: epsilon, total_reward, num_iterations, history
  \* GraphEmitter, given the history of a package engine
  data,            \* the emitter's self.data, a dict
  \* ci_utils
  have_scipy,      \* _HAVE_SCIPY: whether scipy could be imported
  \* experiment_ar: run_experiment, run_experiment_over_epsilons,
  \* run_experiment_over_Ks and the plot functions
  sweep,           \* the arguments of the sweep
  loop,            \* its loop counters: setting i, theta draws s and trials r done
  exec,            \* its locals: theta_list, out, vals, all_vals, means, and
                   \* the position of rng in its stream
  twin,            \* the same locals of a second execution of the sweep
  converged        \* the boolean array of the plot functions, with the
                   \* settings drawn blue (converged) and red (~converged)

None == "None"

\* ---------------------------------------------------------------- bounds
MaxArms == 2       \* most arms of an engine
MaxSteps == 3      \* most decisions of an engine over the whole behaviour
MaxRun == 2        \* largest argument of run(num_iterations)
MaxUpdates == 3    \* most updates of the arm on its own
MaxTime == 3       \* largest argument time of the function MultiBandit
ScenarioArms == 5  \* arms of the one-certain-arm scenario

\* ------------------------------------------------------------- rationals
Abs(n) == IF n < 0 THEN -n ELSE n

RECURSIVE GCD(_, _)
GCD(a, b) == IF b = 0 THEN a ELSE GCD(b, a % b)

Rat(n, d) ==
  LET s == IF d < 0 THEN -1 ELSE 1
      g == GCD(Abs(n), Abs(d))
  IN  <<(s * n) \div g, (s * d) \div g>>

R(n) == <<n, 1>>
RAdd(x, y) == Rat(x[1] * y[2] + y[1] * x[2], x[2] * y[2])
RSub(x, y) == Rat(x[1] * y[2] - y[1] * x[2], x[2] * y[2])
RMul(x, y) == Rat(x[1] * y[1], x[2] * y[2])
RDiv(x, y) == Rat(x[1] * y[2], x[2] * y[1])
RLt(x, y) == x[1] * y[2] < y[1] * x[2]
RLe(x, y) == x[1] * y[2] <= y[1] * x[2]

RECURSIVE SumOver(_, _)
\* sum of the rationals f[i], i in the finite set S
SumOver(f, S) ==
  IF S = {} THEN R(0)
  ELSE LET i == CHOOSE j \in S : TRUE
       IN  RAdd(f[i], SumOver(f, S \ {i}))

\* ------------------------------------------------------------------ inputs
\* true means offered to Bandit(true_mean): -0.1, 0, 0.5, 1, 1.5
TrueMeans == {<<-1, 10>>, <<0, 1>>, <<1, 2>>, <<1, 1>>, <<3, 2>>}
\* true means of the arms an engine is built from: 0, 0.5, 1
EngineMeans == {<<0, 1>>, <<1, 2>>, <<1, 1>>}
\* exploration rates offered to MultiBandit(bandits, epsilon): -0.1, 0, 0.1, 1, 1.5
Epsilons == {<<-1, 10>>, <<0, 1>>, <<1, 10>>, <<1, 1>>, <<3, 2>>}
\* rewards supplied directly to Bandit.update: -1, 0, 1, 2
Rewards == {<<-1, 1>>, <<0, 1>>, <<1, 1>>, <<2, 1>>}
\* rewards drawn by simulate_bandit or supplied to the array engine's update
\* (np.random.normal yields any real): -1, 0, 1
ArrayRewards == {<<-1, 1>>, <<0, 1>>, <<1, 1>>}

InUnit(x) == RLe(R(0), x) /\ RLe(x, R(1))

\* ------------------------------------------------------------------- Bandit
\* Bandit.__init__: stores true_mean as given, no validation
Bandit_init(true_mean) ==
  [true_mean |-> true_mean, estimated_mean |-> R(0), num_pulls |-> 0]

\* a slip: the test is random.random() <= true_mean, which the draw 0.0
\* passes for an arm of true mean 0
Bandit_pull_le(b) ==
  (IF RLe(R(0), b.true_mean) THEN {R(1)} ELSE {}) \cup
  (IF RLt(b.true_mean, R(1)) THEN {R(0)} ELSE {})

\* Bandit.pull: 1.0 if random.random() < true_mean else 0.0, random() in [0, 1)
Bandit_pull(b) ==
  (IF RLt(R(0), b.true_mean) THEN {R(1)} ELSE {}) \cup
  (IF RLt(b.true_mean, R(1)) THEN {R(0)} ELSE {})

\* a slip: the divisor is the pull count before the increment, plus two
Bandit_update_late(b, reward) ==
  [b EXCEPT !.num_pulls = b.num_pulls + 1,
            !.estimated_mean =
               RAdd(b.estimated_mean,
                    RDiv(RSub(reward, b.estimated_mean), R(b.num_pulls + 2)))]

\* Bandit.update: num_pulls += 1; estimated_mean += (reward - estimated_mean) / num_pulls
Bandit_update(b, reward) ==
  LET n == b.num_pulls + 1
  IN  [b EXCEPT !.num_pulls = n,
                !.estimated_mean =
                   RAdd(b.estimated_mean,
                        RDiv(RSub(reward, b.estimated_mean), R(n)))]

\* --------------------------------------------- package engine MultiBandit
NumArms(bs) == Cardinality(DOMAIN bs)

\* MultiBandit.__init__: stores bandits and epsilon as given, no validation
MultiBandit_init(bs, eps) ==
  [bandits |-> bs, epsilon |-> eps, total_reward |-> R(0),
   num_iterations |-> 0, history |-> <<>>]

\* arms whose estimated mean is maximal
MaxMeanArms(bs) ==
  {i \in DOMAIN bs :
     \A j \in DOMAIN bs : RLe(bs[j].estimated_mean, bs[i].estimated_mean)}

\* a slip: the scan keeps the later of two equal maxima
ArgMaxFirst_last(bs) ==
  CHOOSE i \in MaxMeanArms(bs) : \A j \in MaxMeanArms(bs) : i >= j

\* max(range(len(bandits)), key=estimated_mean): the first maximal index
ArgMaxFirst(bs) ==
  CHOOSE i \in MaxMeanArms(bs) : \A j \in MaxMeanArms(bs) : i <= j

\* random.randint(0, len(bandits) - 1): both ends included
Explore(bs) == 0 .. (NumArms(bs) - 1)

\* the exploit branch of select_arm
Exploit(bs) == {ArgMaxFirst(bs)}

\* a slip: the explore test is random.random() <= epsilon, which the draw
\* 0.0 passes when epsilon is 0
SelectChoices_le(bs, eps) ==
  (IF RLe(R(0), eps) THEN {<<"explore", i>> : i \in Explore(bs)} ELSE {}) \cup
  (IF RLt(eps, R(1)) THEN {<<"exploit", i>> : i \in Exploit(bs)} ELSE {})

\* select_arm on a non-empty arm list: the (branch, index) pairs it can
\* return; random.random() lies in [0, 1)
SelectChoices(bs, eps) ==
  (IF RLt(R(0), eps) THEN {<<"explore", i>> : i \in Explore(bs)} ELSE {}) \cup
  (IF RLt(eps, R(1)) THEN {<<"exploit", i>> : i \in Exploit(bs)} ELSE {})

\* the engine as one value
Engine ==
  [bandits |-> bandits, total_reward |-> total_reward,
   num_iterations |-> num_iterations, history |-> history]

\* a slip: the step is recorded but the iteration counter is not advanced
StepResult_nocount(e, arm, reward) ==
  LET bs2 == [e.bandits EXCEPT ![arm] = Bandit_update(@, reward)]
      tr == RAdd(e.total_reward, reward)
      result == [iteration |-> e.num_iterations, arm |-> arm, reward |-> reward,
                 cumulative_reward |-> tr,
                 avg_reward |-> RDiv(tr, R(e.num_iterations + 1)),
                 arm_estimates |-> [i \in DOMAIN bs2 |-> bs2[i].estimated_mean],
                 arm_pulls |-> [i \in DOMAIN bs2 |-> bs2[i].num_pulls]]
  IN  [bandits |-> bs2, total_reward |-> tr,
       num_iterations |-> e.num_iterations,
       history |-> Append(e.history, result)]

\* a slip: the record holds the live pull-count list, not a copy, so every
\* earlier record shows the counts of the latest step
StepResult_alias(e, arm, reward) ==
  LET bs2 == [e.bandits EXCEPT ![arm] = Bandit_update(@, reward)]
      tr == RAdd(e.total_reward, reward)
      ni == e.num_iterations + 1
      pulls == [i \in DOMAIN bs2 |-> bs2[i].num_pulls]
      result == [iteration |-> ni, arm |-> arm, reward |-> reward,
                 cumulative_reward |-> tr,
                 avg_reward |-> RDiv(tr, R(ni)),
                 arm_estimates |-> [i \in DOMAIN bs2 |-> bs2[i].estimated_mean],
                 arm_pulls |-> pulls]
  IN  [bandits |-> bs2, total_reward |-> tr, num_iterations |-> ni,
       history |-> Append([k \in DOMAIN e.history |->
                             [e.history[k] EXCEPT !.arm_pulls = pulls]],
                          result)]

\* a slip: the reward is fed to every arm, not to the chosen one alone
StepResult_everyarm(e, arm, reward) ==
  LET bs2 == [i \in DOMAIN e.bandits |-> Bandit_update(e.bandits[i], reward)]
      tr == RAdd(e.total_reward, reward)
      ni == e.num_iterations + 1
      result == [iteration |-> ni, arm |-> arm, reward |-> reward,
                 cumulative_reward |-> tr,
                 avg_reward |-> RDiv(tr, R(ni)),
                 arm_estimates |-> [i \in DOMAIN bs2 |-> bs2[i].estimated_mean],
                 arm_pulls |-> [i \in DOMAIN bs2 |-> bs2[i].num_pulls]]
  IN  [bandits |-> bs2, total_reward |-> tr, num_iterations |-> ni,
       history |-> Append(e.history, result)]

\* run_iteration after select_arm returned arm and pull returned reward
StepResult(e, arm, reward) ==
  LET bs2 == [e.bandits EXCEPT ![arm] = Bandit_update(@, reward)]
      tr == RAdd(e.total_reward, reward)
      ni == e.num_iterations + 1
      result == [iteration |-> ni, arm |-> arm, reward |-> reward,
                 cumulative_reward |-> tr,
                 avg_reward |-> RDiv(tr, R(ni)),
                 arm_estimates |-> [i \in DOMAIN bs2 |-> bs2[i].estimated_mean],
                 arm_pulls |-> [i \in DOMAIN bs2 |-> bs2[i].num_pulls]]
  IN  [bandits |-> bs2, total_reward |-> tr, num_iterations |-> ni,
       history |-> Append(e.history, result)]

\* the engines one run_iteration can leave (non-empty arm list)
IterResults(e, eps) ==
  UNION {{StepResult(e, c[2], r) : r \in Bandit_pull(e.bandits[c[2]])} :
           c \in SelectChoices(e.bandits, eps)}

RECURSIVE RunResults(_, _, _)
\* run: for _ in range(num_iterations): self.run_iteration()
RunResults(e, eps, n) ==
  IF n <= 0 THEN {e}
  ELSE UNION {RunResults(e2, eps, n - 1) : e2 \in IterResults(e, eps)}

EngineVars == <<bandits, epsilon, total_reward, num_iterations, history>>
ArmVars == <<bandit, fed>>
CallVars == <<op, arg, ret, err, branch>>
AllArrayVars ==
  <<n_arms, counts, values, rewards, strategy, n_iterations, t, beta_params>>
FnVars == <<arms, fn_epsilon, time, fn_t>>
CiVars == <<have_scipy>>
SweepVars == <<sweep, loop, exec, twin, converged>>
\* the variables of the programs other than the arm and the two engines
OtherVars == <<FnVars, second, data, CiVars, SweepVars>>

SetEngine(e) ==
  /\ bandits' = e.bandits
  /\ total_reward' = e.total_reward
  /\ num_iterations' = e.num_iterations
  /\ history' = e.history
  /\ epsilon' = epsilon

\* a call of op with argument a that returned r by branch br / raised x
Returned(o, a, r, br) ==
  op' = o /\ arg' = a /\ ret' = r /\ branch' = br /\ err' = None
Raised(o, a, x) ==
  op' = o /\ arg' = a /\ ret' = None /\ branch' = None /\ err' = x

\* ---- actions of the package engine
\* select_arm(): randint(0, -1) and max of an empty range raise ValueError
select_arm ==
  /\ prog = "package" /\ pc = "ready"
  /\ IF NumArms(bandits) = 0
       THEN Raised("select_arm", None, "ValueError")
       ELSE \E c \in SelectChoices(bandits, epsilon) :
              Returned("select_arm", None, c[2], c[1])
  /\ UNCHANGED <<prog, pc, EngineVars, ArmVars, AllArrayVars, OtherVars>>

\* run_iteration(): select_arm raises before anything is changed
run_iteration ==
  /\ prog = "package" /\ pc = "ready"
  /\ num_iterations < MaxSteps
  /\ IF NumArms(bandits) = 0
       THEN Raised("run_iteration", None, "ValueError") /\ UNCHANGED EngineVars
       ELSE \E e \in IterResults(Engine, epsilon) :
              SetEngine(e) /\ Returned("run_iteration", None, None, None)
  /\ UNCHANGED <<prog, pc, ArmVars, AllArrayVars, OtherVars>>

\* run(num_iterations): range(n) is empty for n <= 0, nothing is raised
run ==
  /\ prog = "package" /\ pc = "ready"
  /\ \E n \in -1 .. MaxRun :
       /\ num_iterations + n <= MaxSteps
       /\ IF n >= 1 /\ NumArms(bandits) = 0
            THEN Raised("run", n, "ValueError") /\ UNCHANGED EngineVars
            ELSE \E e \in RunResults(Engine, epsilon, n) :
                   SetEngine(e) /\ Returned("run", n, None, None)
  /\ UNCHANGED <<prog, pc, ArmVars, AllArrayVars, OtherVars>>

\* get_best_arm(): max of an empty range raises ValueError
get_best_arm ==
  /\ prog = "package" /\ pc = "ready"
  /\ IF NumArms(bandits) = 0
       THEN Raised("get_best_arm", None, "ValueError")
       ELSE Returned("get_best_arm", None, ArgMaxFirst(bandits), None)
  /\ UNCHANGED <<prog, pc, EngineVars, ArmVars, AllArrayVars, OtherVars>>

\* ---- actions of the arm on its own
\* bandit.update(reward)
update ==
  /\ prog = "arm" /\ pc = "ready"
  /\ Len(fed) < MaxUpdates
  /\ \E reward \in Rewards :
       /\ bandit' = Bandit_update(bandit, reward)
       /\ fed' = Append(fed, reward)
       /\ Returned("update", reward, None, None)
  /\ UNCHANGED <<prog, pc, EngineVars, AllArrayVars, OtherVars>>

\* bandit.pull()
pull ==
  /\ prog = "arm" /\ pc = "ready"
  /\ \E reward \in Bandit_pull(bandit) : Returned("pull", None, reward, None)
  /\ UNCHANGED <<prog, pc, EngineVars, ArmVars, AllArrayVars, OtherVars>>

\* ------------------------------------------- array-based MultiBandit
\* the exception MultiBandit(n_arms) raises
MB_init_raises(n) == IF n <= 0 THEN "ValueError" ELSE None

\* MultiBandit.__init__ / reset: zero counts and values, empty reward lists
MB_init(n) ==
  [counts |-> [a \in 0 .. (n - 1) |-> 0],
   values |-> [a \in 0 .. (n - 1) |-> R(0)],
   rewards |-> [a \in 0 .. (n - 1) |-> <<>>]]

\* the array engine as one value
Arrays == [counts |-> counts, values |-> values, rewards |-> rewards]

\* int(np.argmax(v)): the first index holding the maximum
NpArgMax(v) ==
  CHOOSE i \in DOMAIN v :
    /\ \A j \in DOMAIN v : RLe(v[j], v[i])
    /\ \A j \in DOMAIN v : j < i => RLt(v[j], v[i])

\* a slip: the upper end included, as random.randint does
NpRandint_inclusive(n) == 0 .. n

\* np.random.randint(0, n_arms): the upper end excluded
NpRandint(n) == 0 .. (n - 1)

\* select_arm_epsilon_greedy(epsilon): the (branch, index) pairs it can return
EpsilonGreedyChoices(b, n, eps) ==
  (IF RLt(R(0), eps) THEN {<<"explore", i>> : i \in NpRandint(n)} ELSE {}) \cup
  (IF RLt(eps, R(1)) THEN {<<"exploit", NpArgMax(b.values)>>} ELSE {})

\* arms that cannot hold the first maximum of
\* values + c * sqrt(log(t + 1) / (counts + 1e-5)), c > 0, t >= 1:
\* another arm has a mean at least as large and a bonus at least as large
\* (no more pulls), and is earlier or strictly better in one of the two
UcbDominated(b, a) ==
  \E o \in DOMAIN b.counts :
    /\ o # a
    /\ RLe(b.values[a], b.values[o])
    /\ b.counts[o] <= b.counts[a]
    /\ (o < a \/ RLt(b.values[a], b.values[o]) \/ b.counts[o] < b.counts[a])

\* the bonus formula of select_arm_ucb: for t = 0 (log 1 = 0) or c = 0 the
\* bonus is 0 and the result is argmax(values); otherwise any arm that is
\* not dominated
UcbFormula(b, tt, c) ==
  IF tt = 0 \/ c = 0 THEN {NpArgMax(b.values)}
  ELSE {a \in DOMAIN b.counts : ~UcbDominated(b, a)}

\* a slip: the loop over unpulled arms is missing
UcbChoices_noforce(b, n, tt, c) ==
  {<<"formula", a>> : a \in UcbFormula(b, tt, c)}

\* select_arm_ucb(t, c): the first arm with counts == 0, else the formula
UcbChoices(b, n, tt, c) ==
  LET unpulled == {a \in 0 .. (n - 1) : b.counts[a] = 0}
  IN  IF unpulled # {}
        THEN {<<"unpulled", CHOOSE a \in unpulled : \A o \in unpulled : a <= o>>}
        ELSE {<<"formula", a>> : a \in UcbFormula(b, tt, c)}

\* sum of the pull counts
SumCounts(c) == SumOver([a \in DOMAIN c |-> R(c[a])], DOMAIN c)[1]

\* the parameters handed to np.random.beta by select_arm_thompson_sampling:
\* alpha + counts, beta + (np.sum(counts) - counts + 1)
ThompsonParams(b, alpha, beta) ==
  [a \in DOMAIN b.counts |->
     <<alpha + b.counts[a], beta + (SumCounts(b.counts) - b.counts[a] + 1)>>]

\* select_arm_thompson_sampling: argmax of one continuous draw per arm
ThompsonChoices(b, n) == {<<"sample", a>> : a \in 0 .. (n - 1)}

\* the exception update(arm, reward) raises
MB_update_raises(n, arm) ==
  IF arm < 0 \/ arm >= n THEN "ValueError" ELSE None

\* a slip: the two weights of the incremental mean exchanged
MB_update_swapped(b, arm, reward) ==
  LET n == b.counts[arm] + 1
      value == b.values[arm]
  IN  [counts |-> [b.counts EXCEPT ![arm] = n],
       rewards |-> [b.rewards EXCEPT ![arm] = Append(@, reward)],
       values |-> [b.values EXCEPT ![arm] =
                     RAdd(RMul(RDiv(R(1), R(n)), value),
                          RMul(RDiv(R(n - 1), R(n)), reward))]]

\* update(arm, reward) for a valid arm:
\* values[arm] = ((n - 1) / n) * value + (1 / n) * reward
MB_update(b, arm, reward) ==
  LET n == b.counts[arm] + 1
      value == b.values[arm]
  IN  [counts |-> [b.counts EXCEPT ![arm] = n],
       rewards |-> [b.rewards EXCEPT ![arm] = Append(@, reward)],
       values |-> [b.values EXCEPT ![arm] =
                     RAdd(RMul(RDiv(R(n - 1), R(n)), value),
                          RMul(RDiv(R(1), R(n)), reward))]]

\* defaults of simulate_bandit's strategy_params and of the selection methods
DefaultEpsilon == <<1, 10>>
DefaultC == 2
DefaultAlpha == 1
DefaultBeta == 1

Strategies == {"epsilon_greedy", "ucb", "thompson", "softmax"}

\* the arm selection of simulate_bandit's loop body at index tt
StrategyChoices(b, n, strat, tt) ==
  IF strat = "epsilon_greedy" THEN EpsilonGreedyChoices(b, n, DefaultEpsilon)
  ELSE IF strat = "ucb" THEN UcbChoices(b, n, tt, DefaultC)
  ELSE ThompsonChoices(b, n)

ArrayVars == <<n_arms, counts, values, rewards>>
SimVars == <<strategy, n_iterations, t>>

SetArrays(b) ==
  counts' = b.counts /\ values' = b.values /\ rewards' = b.rewards

\* ---- actions of the array-based engine
\* one pass of simulate_bandit's loop: select, draw a reward, update
simulate_bandit ==
  /\ prog = "array" /\ pc = "loop"
  /\ IF strategy \notin {"epsilon_greedy", "ucb", "thompson"}
       THEN /\ Raised("simulate_bandit", t, "ValueError")
            /\ pc' = "failed"
            /\ beta_params' = None
            /\ UNCHANGED <<counts, values, rewards, t>>
       ELSE \E c \in StrategyChoices(Arrays, n_arms, strategy, t) :
            \E reward \in ArrayRewards :
              /\ beta_params' =
                   IF strategy = "thompson"
                     THEN ThompsonParams(Arrays, DefaultAlpha, DefaultBeta)
                     ELSE None
              /\ IF MB_update_raises(n_arms, c[2]) # None
                   THEN /\ Raised("simulate_bandit", t, MB_update_raises(n_arms, c[2]))
                        /\ pc' = "failed"
                        /\ UNCHANGED <<counts, values, rewards, t>>
                   ELSE /\ SetArrays(MB_update(Arrays, c[2], reward))
                        /\ Returned("simulate_bandit", t, c[2], c[1])
                        /\ t' = t + 1
                        /\ pc' = IF t + 1 < n_iterations THEN "loop" ELSE "returned"
  /\ UNCHANGED <<prog, n_arms, strategy, n_iterations, EngineVars, ArmVars, OtherVars>>

ArrayCall ==
  /\ prog = "array" /\ pc = "ready"
  /\ UNCHANGED <<prog, pc, n_arms, SimVars, EngineVars, ArmVars, OtherVars>>

select_arm_epsilon_greedy ==
  /\ ArrayCall
  /\ \E eps \in {R(0), DefaultEpsilon, R(1)} :
     \E c \in EpsilonGreedyChoices(Arrays, n_arms, eps) :
       Returned("select_arm_epsilon_greedy", eps, c[2], c[1])
  /\ beta_params' = None /\ UNCHANGED <<counts, values, rewards>>

select_arm_ucb ==
  /\ ArrayCall
  /\ \E tt \in 0 .. MaxSteps :
     \E c \in UcbChoices(Arrays, n_arms, tt, DefaultC) :
       Returned("select_arm_ucb", tt, c[2], c[1])
  /\ beta_params' = None /\ UNCHANGED <<counts, values, rewards>>

select_arm_thompson_sampling ==
  /\ ArrayCall
  /\ \E ab \in {<<DefaultAlpha, DefaultBeta>>, <<2, 3>>} :
     \E c \in ThompsonChoices(Arrays, n_arms) :
       /\ Returned("select_arm_thompson_sampling", ab, c[2], c[1])
       /\ beta_params' = ThompsonParams(Arrays, ab[1], ab[2])
  /\ UNCHANGED <<counts, values, rewards>>

\* update(arm, reward), arm possibly out of range
MultiBandit_update ==
  /\ ArrayCall
  /\ SumCounts(counts) < MaxSteps
  /\ \E arm \in -1 .. n_arms : \E reward \in ArrayRewards :
       IF MB_update_raises(n_arms, arm) # None
         THEN /\ Raised("update", arm, MB_update_raises(n_arms, arm))
              /\ UNCHANGED <<counts, values, rewards>>
         ELSE /\ SetArrays(MB_update(Arrays, arm, reward))
              /\ Returned("update", arm, None, None)
  /\ beta_params' = None

MB_get_best_arm ==
  /\ ArrayCall
  /\ Returned("get_best_arm", None, NpArgMax(values), None)
  /\ beta_params' = None /\ UNCHANGED <<counts, values, rewards>>

reset ==
  /\ ArrayCall
  /\ SetArrays(MB_init(n_arms))
  /\ Returned("reset", None, None, None)
  /\ beta_params' = None

\* ------------------------------- function MultiBandit(epsilon, theta, time)
\* reward probabilities offered as theta: 0, 0.5, 1
Thetas == {<<0, 1>>, <<1, 2>>, <<1, 1>>}
\* epsilon of the function: 0, 0.1, 1
FnEpsilons == {<<0, 1>>, <<1, 10>>, <<1, 1>>}
\* theta lists of the scenario: every arm 0.0 but one arm 1.0
ScenarioThetas ==
  {[i \in 0 .. (ScenarioArms - 1) |-> IF i = one THEN R(1) ELSE R(0)] :
     one \in 0 .. (ScenarioArms - 1)}

\* initArm(theta): one dict per entry of theta
initArm(theta) ==
  [i \in DOMAIN theta |-> [theta |-> theta[i], numOfTimes |-> 0, rewords |-> 0]]

\* Reword(arm): 1 if random.random() < theta else 0, random.random() in [0, 1)
Reword(arm) ==
  (IF RLt(R(0), arm.theta) THEN {1} ELSE {}) \cup
  (IF RLt(arm.theta, R(1)) THEN {0} ELSE {})

\* avg(arm) of the exploit branch
avg(arm) ==
  IF arm.numOfTimes = 0 THEN R(0) ELSE RDiv(R(arm.rewords), R(arm.numOfTimes))

\* the default rel_tol of math.isclose is 1e-09, its default abs_tol 0
RelTolInv == 1000000000
RAbs(x) == <<Abs(x[1]), x[2]>>
RMax(x, y) == IF RLt(x, y) THEN y ELSE x
\* math.isclose(a, b): a == b or |a - b| <= rel_tol * max(|a|, |b|); the
\* second test is made on the quotient max(|a|, |b|) / |a - b| >= 1 / rel_tol
isclose(a, b) ==
  \/ a = b
  \/ LET q == RDiv(RMax(RAbs(a), RAbs(b)), RAbs(RSub(a, b)))
     IN  q[1] \div q[2] >= RelTolInv

\* max(vals)
MaxAvg(as) ==
  CHOOSE v \in {avg(as[i]) : i \in DOMAIN as} :
    \A j \in DOMAIN as : RLe(avg(as[j]), v)

\* candidates of the exploit branch
Candidates(as) == {i \in DOMAIN as : isclose(avg(as[i]), MaxAvg(as))}

\* the arm one pass chooses, with the branch taken: random.randrange(len(arms))
\* if random.random() < epsilon, else random.choice(candidates)
FnChoices(as, eps) ==
  (IF RLt(R(0), eps) THEN {<<"explore", i>> : i \in DOMAIN as} ELSE {}) \cup
  (IF RLt(eps, R(1)) THEN {<<"exploit", i>> : i \in Candidates(as)} ELSE {})

\* a slip: the two counters are swapped, the reward is added to numOfTimes
\* and the pull to rewords
FnUpdate_swapped(as, choice, r) ==
  [as EXCEPT ![choice] = [@ EXCEPT !.numOfTimes = @ + r, !.rewords = @ + 1]]

\* arms[choice]["numOfTimes"] += 1; arms[choice]["rewords"] += r
FnUpdate(as, choice, r) ==
  [as EXCEPT ![choice] = [@ EXCEPT !.numOfTimes = @ + 1, !.rewords = @ + r]]

RECURSIVE SumInts(_, _)
SumInts(f, S) ==
  IF S = {} THEN 0
  ELSE LET i == CHOOSE j \in S : TRUE IN f[i] + SumInts(f, S \ {i})

\* sum(a["rewords"] for a in arms)
SumRewords(as) == SumInts([i \in DOMAIN as |-> as[i].rewords], DOMAIN as)

\* the arms one pass of the loop can leave (non-empty arm list)
FnPass(as, eps) ==
  UNION {{FnUpdate(as, c[2], r) : r \in Reword(as[c[2]])} : c \in FnChoices(as, eps)}

RECURSIVE FnLoop(_, _, _)
\* the arms n passes of the loop can leave
FnLoop(as, eps, n) ==
  IF n <= 0 THEN {as}
  ELSE UNION {FnLoop(as2, eps, n - 1) : as2 \in FnPass(as, eps)}

\* MultiBandit(epsilon, theta, time) as one call: the pairs (AR, arms) it can
\* return (theta non-empty or time <= 0)
MultiBanditResults(eps, theta, tm) ==
  {<<SumRewords(as), as>> : as \in FnLoop(initArm(theta), eps, tm)}

\* the exception MultiBandit raises: random.randrange(0) and max([]) raise
\* ValueError in the first pass over an empty arm list
MultiBandit_raises(theta, tm) ==
  IF tm >= 1 /\ DOMAIN theta = {} THEN "ValueError" ELSE None

\* one pass of the loop of MultiBandit; the last pass returns (AR, arms)
MultiBandit ==
  /\ prog = "function" /\ pc = "loop"
  /\ IF DOMAIN arms = {}
       THEN /\ Raised("MultiBandit", None, "ValueError")
            /\ pc' = "failed" /\ UNCHANGED <<arms, fn_t>>
       ELSE \E c \in FnChoices(arms, fn_epsilon) : \E r \in Reword(arms[c[2]]) :
              /\ arms' = FnUpdate(arms, c[2], r)
              /\ fn_t' = fn_t + 1
              /\ pc' = IF fn_t + 1 = time THEN "returned" ELSE "loop"
              /\ op' = "MultiBandit" /\ arg' = c[2] /\ branch' = c[1]
              /\ err' = None
              /\ ret' = IF fn_t + 1 = time
                          THEN <<SumRewords(arms'), arms'>> ELSE None
  /\ UNCHANGED <<prog, fn_epsilon, time, EngineVars, ArmVars, AllArrayVars, second, data,
                 CiVars, SweepVars>>

\* ------------------- two package engines constructed from one list of arms
\* MultiBandit.__init__ keeps the list it is given (self.bandits = bandits):
\* both engines hold the same Bandit objects, modelled by the one variable
\* bandits; each engine has its own epsilon, total_reward, num_iterations
\* and history
SecondEngine ==
  [bandits |-> bandits, total_reward |-> second.total_reward,
   num_iterations |-> second.num_iterations, history |-> second.history]

\* first.run_iteration()
first_run_iteration ==
  /\ prog = "shared" /\ pc = "ready"
  /\ num_iterations + second.num_iterations < MaxSteps
  /\ \E e \in IterResults(Engine, epsilon) :
       SetEngine(e) /\ Returned("run_iteration", "first", None, None)
  /\ UNCHANGED <<prog, pc, second, ArmVars, AllArrayVars, FnVars, data, CiVars, SweepVars>>

\* second.run_iteration()
second_run_iteration ==
  /\ prog = "shared" /\ pc = "ready"
  /\ num_iterations + second.num_iterations < MaxSteps
  /\ \E e \in IterResults(SecondEngine, second.epsilon) :
       /\ bandits' = e.bandits
       /\ second' = [second EXCEPT !.total_reward = e.total_reward,
                                   !.num_iterations = e.num_iterations,
                                   !.history = e.history]
       /\ Returned("run_iteration", "second", None, None)
  /\ UNCHANGED <<prog, pc, epsilon, total_reward, num_iterations, history,
                 ArmVars, AllArrayVars, FnVars, data, CiVars, SweepVars>>

\* -------------------------------------------------------- GraphEmitter
MaxWidth == 2      \* largest width given to emit_ascii_graph
GraphHeight == 20  \* height = 20 in emit_ascii_graph
EmptyDict == <<>>

\* a // b of Python for b # 0: the floor of the quotient
PyFloorDiv(a, b) == IF b > 0 THEN a \div b ELSE (-a) \div (-b)

\* the graph_data of emit_performance_data for a non-empty history
PerformanceData(h) ==
  [type |-> "performance",
   iterations |-> [i \in DOMAIN h |-> h[i].iteration],
   rewards |-> [i \in DOMAIN h |-> h[i].reward],
   cumulative_rewards |-> [i \in DOMAIN h |-> h[i].cumulative_reward],
   average_rewards |-> [i \in DOMAIN h |-> h[i].avg_reward]]

\* the graph_data of emit_arm_selection_data: the last record's arm_pulls
ArmSelectionData(h) ==
  LET arm_pulls == h[Len(h)].arm_pulls
  IN  [type |-> "arm_selection",
       arm_indices |-> [a \in DOMAIN arm_pulls |-> a],
       pull_counts |-> arm_pulls,
       total_pulls |-> SumInts(arm_pulls, DOMAIN arm_pulls)]

\* the graph_data of emit_arm_estimates_data: one list of estimates per arm
ArmEstimatesData(h) ==
  [type |-> "arm_estimates",
   iterations |-> [i \in DOMAIN h |-> h[i].iteration],
   estimates |-> [a \in DOMAIN h[1].arm_estimates |->
                    [i \in DOMAIN h |-> h[i].arm_estimates[a]]]]

\* s[::step] for step >= 1
Sliced(s, step) ==
  [k \in 1 .. ((Len(s) + step - 1) \div step) |-> s[(k - 1) * step + 1]]

\* the exception emit_ascii_graph(history, width) raises: the only statement
\* that can fail is len(avg_rewards) // width
AsciiGraph_raises(h, width) ==
  IF Len(h) > 0 /\ width = 0 THEN "ZeroDivisionError" ELSE None

\* the graph emit_ascii_graph(history, width) returns when it does not raise:
\* the title's maximum, the length of the rule under it, the rows from the
\* top (row i marks the sampled rewards >= min + range * i / height), the
\* length of the axis and the last iteration
AsciiGraph(h, width) ==
  IF Len(h) = 0 THEN "No data to graph"
  ELSE
    LET avg_rewards == [i \in DOMAIN h |-> h[i].avg_reward]
        step == IF PyFloorDiv(Len(h), width) > 1
                  THEN PyFloorDiv(Len(h), width) ELSE 1
        sampled == Sliced(avg_rewards, step)
        max_reward == CHOOSE v \in {sampled[k] : k \in DOMAIN sampled} :
                        \A k \in DOMAIN sampled : RLe(sampled[k], v)
        min_reward == CHOOSE v \in {sampled[k] : k \in DOMAIN sampled} :
                        \A k \in DOMAIN sampled : RLe(v, sampled[k])
        reward_range == IF RSub(max_reward, min_reward) = R(0) THEN R(1)
                        ELSE RSub(max_reward, min_reward)
        threshold(i) == RAdd(min_reward,
                             RDiv(RMul(reward_range, R(i)), R(GraphHeight)))
    IN  [max |-> max_reward,
         rule |-> IF width + 10 > 0 THEN width + 10 ELSE 0,
         rows |-> [i \in 0 .. GraphHeight |->
                     [k \in DOMAIN sampled |-> RLe(threshold(i), sampled[k])]],
         axis |-> Len(sampled),
         last |-> h[Len(h)].iteration]

EmitterCall ==
  /\ prog = "emitter" /\ pc = "ready"
  /\ UNCHANGED <<prog, pc, EngineVars, ArmVars, AllArrayVars, FnVars, second, CiVars, SweepVars>>

\* emitter.emit_performance_data(history)
emit_performance_data ==
  /\ EmitterCall
  /\ IF Len(history) = 0
       THEN Returned("emit_performance_data", None, EmptyDict, None)
            /\ UNCHANGED data
       ELSE /\ Returned("emit_performance_data", None, PerformanceData(history), None)
            /\ data' = ("performance" :> PerformanceData(history)) @@ data

\* emitter.emit_arm_selection_data(history)
emit_arm_selection_data ==
  /\ EmitterCall
  /\ IF Len(history) = 0
       THEN Returned("emit_arm_selection_data", None, EmptyDict, None)
            /\ UNCHANGED data
       ELSE /\ Returned("emit_arm_selection_data", None, ArmSelectionData(history), None)
            /\ data' = ("arm_selection" :> ArmSelectionData(history)) @@ data

\* emitter.emit_arm_estimates_data(history)
emit_arm_estimates_data ==
  /\ EmitterCall
  /\ IF Len(history) = 0
       THEN Returned("emit_arm_estimates_data", None, EmptyDict, None)
            /\ UNCHANGED data
       ELSE /\ Returned("emit_arm_estimates_data", None, ArmEstimatesData(history), None)
            /\ data' = ("arm_estimates" :> ArmEstimatesData(history)) @@ data

\* emitter.emit_ascii_graph(history, width)
emit_ascii_graph ==
  /\ EmitterCall
  /\ \E width \in -1 .. MaxWidth :
       IF AsciiGraph_raises(history, width) # None
         THEN Raised("emit_ascii_graph", width, AsciiGraph_raises(history, width))
         ELSE Returned("emit_ascii_graph", width, AsciiGraph(history, width), None)
  /\ UNCHANGED data

\* ------------------------------------------------------------- ci_utils
MaxVals == 3       \* most observations given to ci_halfwidth on its own
\* observations: accumulated rewards 0, 1, 2 as floats
Observations == {R(0), R(1), R(2)}

\* statistics.mean(vals), vals non-empty
Mean(vals) == RDiv(SumOver(vals, DOMAIN vals), R(Len(vals)))

\* statistics.variance(vals), the square of statistics.stdev(vals): the sum
\* of squared deviations from the mean over n - 1 (n >= 2)
Variance(vals) ==
  LET m == Mean(vals)
      d == [i \in DOMAIN vals |-> RMul(RSub(vals[i], m), RSub(vals[i], m))]
  IN  RDiv(SumOver(d, DOMAIN vals), R(Len(vals) - 1))

\* statistics.stdev raises StatisticsError on fewer than two observations
stdev_raises(vals) == IF Len(vals) < 2 THEN "StatisticsError" ELSE None

\* the fallback critical value 1.96
ZCrit == <<49, 25>>
\* stats.t.ppf(1 - alpha / 2, df) for conf = 0.95, to three significant
\* digits: 12.7, 4.30, 3.18, 2.78, 2.57, 2.45, 2.36, 2.31 for df = 1..8
TCrit(df) ==
  <<<<127, 10>>, <<43, 10>>, <<159, 50>>, <<139, 50>>,
    <<257, 100>>, <<49, 20>>, <<59, 25>>, <<231, 100>>>>[df]

\* a half-width crit * sqrt(se2): the critical value and the square of the
\* standard error se = s / sqrt(n); the float 0.0 is Hw(0, 0)
Hw(crit, se2) == [crit |-> crit, se2 |-> se2]

\* a slip: the guard is n < 1, so one observation reaches statistics.stdev
ci_halfwidth_raises_lt(vals) ==
  IF Len(vals) < 1 THEN None ELSE stdev_raises(vals)

\* the exception ci_halfwidth(vals) raises: stdev is reached for n >= 2 only
ci_halfwidth_raises(vals) ==
  IF Len(vals) <= 1 THEN None ELSE stdev_raises(vals)

\* a slip: no early return for n <= 1, the standard error of fewer than two
\* observations is taken as 1
ci_halfwidth_value_se1(vals, scipy) ==
  IF Len(vals) <= 1 THEN Hw(ZCrit, R(1))
  ELSE Hw(IF scipy THEN TCrit(Len(vals) - 1) ELSE ZCrit,
          RDiv(Variance(vals), R(Len(vals))))

\* the value ci_halfwidth(vals, 0.95) returns: tcrit * se
ci_halfwidth_value(vals, scipy) ==
  IF Len(vals) <= 1 THEN Hw(R(0), R(0))
  ELSE Hw(IF scipy THEN TCrit(Len(vals) - 1) ELSE ZCrit,
          RDiv(Variance(vals), R(Len(vals))))

\* c / x for a half-width c and a number x # 0
HwDiv(h, x) == Hw(RDiv(h.crit, x), h.se2)
\* the sign of a half-width: -1, 0 or 1
HwSign(h) ==
  IF h.crit = R(0) \/ h.se2 = R(0) THEN 0
  ELSE IF RLt(h.crit, R(0)) THEN -1 ELSE 1
\* a slip: the comparison is strict, so a half-width equal to x fails it
HwLe_strict(h, x) ==
  LET h2 == RMul(RMul(h.crit, h.crit), h.se2)
      x2 == RMul(x, x)
  IN  IF HwSign(h) >= 0
        THEN RLt(R(0), x) /\ RLt(h2, x2)
        ELSE RLe(R(0), x) \/ RLt(x2, h2)

\* h <= x for a half-width h and a number x, compared through the squares
HwLe(h, x) ==
  LET h2 == RMul(RMul(h.crit, h.crit), h.se2)
      x2 == RMul(x, x)
  IN  IF HwSign(h) >= 0
        THEN RLe(R(0), x) /\ RLe(h2, x2)
        ELSE RLe(R(0), x) \/ RLe(x2, h2)

\* ci_halfwidth(vals) with vals in arg
ci_halfwidth ==
  /\ prog = "ci" /\ pc = "ready"
  /\ pc' = "returned"
  /\ IF ci_halfwidth_raises(arg) # None
       THEN /\ op' = "ci_halfwidth" /\ err' = ci_halfwidth_raises(arg)
            /\ ret' = None
       ELSE /\ op' = "ci_halfwidth" /\ err' = None
            /\ ret' = ci_halfwidth_value(arg, have_scipy)
  /\ UNCHANGED <<prog, arg, branch, EngineVars, ArmVars, AllArrayVars, FnVars,
                 second, data, CiVars, SweepVars>>

\* --------------------------------------------------------- experiment_ar
\* arguments offered to the sweeps
SweepTimes == {<<1>>, <<2, 1>>, <<0>>}
SweepEpsilons == {<<R(0), R(1)>>, <<DefaultEpsilon>>}
SweepKs == {<<1>>, <<2, 1>>}
SweepRepeats == {0, 1, 2}
SweepSamples == {1, 2}
\* seed: None (no seed) as the empty tuple, the seeds 0 and 1 as <<0>>, <<1>>
NoSeed == <<>>
SweepSeeds == {NoSeed, <<0>>, <<1>>}
\* explicit theta lists: [0.5] and [0.5, 1.0]
SweepThetas == {(0 :> <<1, 2>>), (0 :> <<1, 2>>) @@ (1 :> <<1, 1>>)}
\* values of a clipped normal sample: 0.5, 1.0
SampleThetas == {<<1, 2>>, <<1, 1>>}
\* ci_threshold: 0, 0.01 (the default), 0.98, 1
Thresholds == {R(0), <<1, 100>>, <<49, 50>>, R(1)}

\* the epsilon, horizon and arm probabilities of the trials of setting i
EpsOf(sw, i) == IF sw.mode = "epsilons" THEN sw.xs[i] ELSE sw.epsilon
TimeOf(sw, i) == IF sw.mode = "times" THEN sw.xs[i] ELSE sw.fixed_time
ThetaOf(sw, x) == IF sw.mode = "Ks" THEN x.theta_list ELSE sw.theta

\* the n-th value of the stream of np.random.default_rng(seed), after
\* np.clip: a fixed function of seed and n
SeededValue(seed, n) == IF (seed[1] + n) % 2 = 0 THEN <<1, 2>> ELSE <<1, 1>>

\* a slip: the generator is created without the seed
ThetaDraws_unseeded(seed, pos, K) == [0 .. (K - 1) -> SampleThetas]

\* np.clip(rng.normal(mean, std, size=K), 0, 1).tolist() with rng at
\* position pos: any values from default_rng(), those of the stream from
\* default_rng(seed)
ThetaDraws(seed, pos, K) ==
  IF seed = NoSeed THEN [0 .. (K - 1) -> SampleThetas]
  ELSE {[k \in 0 .. (K - 1) |-> SeededValue(seed, pos + k)]}

\* the locals of a sweep at its start
ExecInit ==
  [theta_list |-> None, out |-> None, vals |-> <<>>, all_vals |-> <<>>,
   means |-> <<>>, rng_pos |-> 0]

\* sampled = rng.normal(...); theta_list = np.clip(sampled).tolist()
ExecDraw(x, sw, i) ==
  {[x EXCEPT !.theta_list = th, !.rng_pos = @ + sw.xs[i]] :
     th \in ThetaDraws(sw.seed, x.rng_pos, sw.xs[i])}

\* out = mb.MultiBandit(epsilon, theta, time); vals.append(float(out[0]));
\* the function draws from the random module, which no sweep seeds
ExecTrial(x, sw, i) ==
  {[x EXCEPT !.out = out, !.vals = Append(@, R(out[1]))] :
     out \in MultiBanditResults(EpsOf(sw, i), ThetaOf(sw, x), TimeOf(sw, i))}

\* a slip: vals = [] stands before the loop over the settings
NewVals_kept(vals) == vals

\* vals = [] at the head of the next setting
NewVals(vals) == <<>>

\* all_vals.append(vals); means.append(statistics.mean(vals)), and the
\* head of the next setting if there is one
ExecClose(x, sw, i) ==
  [x EXCEPT !.all_vals = Append(@, x.vals),
            !.means = Append(@, Mean(x.vals)),
            !.vals = IF i < Len(sw.xs) THEN NewVals(x.vals) ELSE x.vals]

\* the tuple a sweep returns: the swept values, the means and the CI
\* half-widths per step, and the raw outcome sets
ExecResult(x, sw, scipy) ==
  [xs |-> sw.xs,
   per_step_means |->
     [i \in DOMAIN x.means |-> RDiv(x.means[i], R(TimeOf(sw, i)))],
   per_step_cis |->
     [i \in DOMAIN x.all_vals |->
        HwDiv(ci_halfwidth_value(x.all_vals[i], scipy), R(TimeOf(sw, i)))],
   all_vals |-> x.all_vals]

\* where a setting starts: the theta draw of the sweep over K, the first
\* trial otherwise, and the end of the setting when its loops are empty
StartPc(sw) ==
  IF sw.mode = "Ks" THEN (IF sw.samples >= 1 THEN "draw" ELSE "close")
  ELSE IF sw.repeats >= 1 THEN "trial" ELSE "close"

\* both executions when there are two
Twin(next) == IF prog = "twin" THEN next ELSE {None}

SweepFrame ==
  UNCHANGED <<prog, sweep, EngineVars, ArmVars, AllArrayVars, FnVars, second,
              data, CiVars>>

\* one pass of "for s in range(samples)" up to its inner loop
draw_theta ==
  /\ prog \in {"sweep", "twin"} /\ pc = "draw"
  /\ LET Draw(x) == ExecDraw(x, sweep, loop.i)
     IN  exec' \in Draw(exec) /\ twin' \in Twin(Draw(twin))
  /\ loop' = [loop EXCEPT !.s = @ + 1, !.r = 0]
  /\ pc' = IF sweep.repeats >= 1 THEN "trial"
           ELSE IF loop.s + 1 < sweep.samples THEN "draw" ELSE "close"
  /\ Returned("draw_theta", loop.i, None, None)
  /\ UNCHANGED converged /\ SweepFrame

\* one pass of "for _ in range(repeats)"
trial ==
  /\ prog \in {"sweep", "twin"} /\ pc = "trial"
  /\ IF MultiBandit_raises(ThetaOf(sweep, exec), TimeOf(sweep, loop.i)) # None
       THEN /\ Raised("trial", loop.i, "ValueError")
            /\ pc' = "failed" /\ UNCHANGED <<loop, exec, twin>>
       ELSE /\ LET Trial(x) == ExecTrial(x, sweep, loop.i)
               IN  exec' \in Trial(exec) /\ twin' \in Twin(Trial(twin))
            /\ loop' = [loop EXCEPT !.r = @ + 1]
            /\ pc' = IF loop.r + 1 < sweep.repeats THEN "trial"
                     ELSE IF sweep.mode = "Ks" /\ loop.s < sweep.samples
                            THEN "draw" ELSE "close"
            /\ Returned("trial", loop.i, None, None)
  /\ UNCHANGED converged /\ SweepFrame

\* the end of a setting: statistics.mean raises StatisticsError on no values
close_setting ==
  /\ prog \in {"sweep", "twin"} /\ pc = "close"
  /\ IF exec.vals = <<>>
       THEN /\ Raised("close_setting", loop.i, "StatisticsError")
            /\ pc' = "failed" /\ UNCHANGED <<loop, exec, twin>>
       ELSE /\ LET Close(x) == {ExecClose(x, sweep, loop.i)}
               IN  exec' \in Close(exec) /\ twin' \in Twin(Close(twin))
            /\ IF loop.i < Len(sweep.xs)
                 THEN loop' = [i |-> loop.i + 1, s |-> 0, r |-> 0]
                      /\ pc' = StartPc(sweep)
                 ELSE loop' = loop /\ pc' = "finish"
            /\ Returned("close_setting", loop.i, None, None)
  /\ UNCHANGED converged /\ SweepFrame

\* after the loop: the per-step values (m / t raises ZeroDivisionError for a
\* horizon 0) and the return
finish ==
  /\ prog \in {"sweep", "twin"} /\ pc = "finish"
  /\ IF \E i \in DOMAIN sweep.xs : TimeOf(sweep, i) = 0
       THEN Raised("finish", None, "ZeroDivisionError") /\ pc' = "failed"
       ELSE /\ pc' = "returned"
            /\ Returned("finish", None,
                        IF prog = "sweep" THEN ExecResult(exec, sweep, have_scipy)
                        ELSE <<ExecResult(exec, sweep, have_scipy),
                               ExecResult(twin, sweep, have_scipy)>>,
                        None)
  /\ UNCHANGED <<loop, exec, twin, converged>> /\ SweepFrame

\* plot_and_save / plot_x_vs_ar(xs, means, cis, ci_threshold) with
\* enable_converge: converged = np.array(cis) <= ci_threshold; the points
\* of converged are drawn blue, those of ~converged red
plot ==
  /\ prog = "sweep" /\ pc = "returned"
  /\ \E ci_threshold \in Thresholds :
       /\ LET mask == [i \in DOMAIN ret.per_step_cis |->
                          HwLe(ret.per_step_cis[i], ci_threshold)]
          IN  converged' = [mask |-> mask,
                            blue |-> {i \in DOMAIN mask : mask[i]},
                            red |-> {i \in DOMAIN mask : ~mask[i]}]
       /\ op' = "plot" /\ arg' = ci_threshold
  /\ pc' = "plotted"
  /\ UNCHANGED <<ret, err, branch, loop, exec, twin>> /\ SweepFrame

\* ---- initial states: the object just constructed
NoEngine == MultiBandit_init(<<>>, R(0))
NoArrays ==
  /\ n_arms = 0 /\ counts = <<>> /\ values = <<>> /\ rewards = <<>>
  /\ strategy = None /\ n_iterations = 0 /\ t = 0 /\ beta_params = None
NoPackage ==
  /\ bandits = NoEngine.bandits /\ epsilon = NoEngine.epsilon
  /\ total_reward = NoEngine.total_reward
  /\ num_iterations = NoEngine.num_iterations /\ history = NoEngine.history
NoArm == bandit = None /\ fed = <<>>
NoCall == arg = None /\ ret = None /\ branch = None
NoFn == arms = None /\ fn_epsilon = None /\ time = None /\ fn_t = None
NoShared == second = None
NoEmitter == data = None
NoCi == have_scipy = None
NoSweep ==
  sweep = None /\ loop = None /\ exec = None /\ twin = None /\ converged = None
NoOther == NoFn /\ NoShared /\ NoEmitter /\ NoCi /\ NoSweep

\* Bandit(true_mean)
InitArm ==
  /\ prog = "arm" /\ pc = "ready"
  /\ \E tm \in TrueMeans : bandit = Bandit_init(tm)
  /\ fed = <<>>
  /\ op = "Bandit" /\ NoCall /\ err = None
  /\ NoPackage /\ NoArrays /\ NoOther

\* MultiBandit(bandits, epsilon) on freshly created arms: up to MaxArms arms
\* of any mean, or the ScenarioArms arms of the one-certain-arm scenario
\* with the default epsilon, under which every arm can be chosen at each step
InitPackage ==
  /\ prog = "package" /\ pc = "ready"
  /\ \E tms \in (UNION {[0 .. (k - 1) -> EngineMeans] : k \in 0 .. MaxArms})
                  \cup ScenarioThetas :
       \E eps \in IF tms \in ScenarioThetas THEN {DefaultEpsilon} ELSE Epsilons :
         LET e == MultiBandit_init([i \in DOMAIN tms |-> Bandit_init(tms[i])], eps)
         IN  /\ bandits = e.bandits /\ epsilon = e.epsilon
             /\ total_reward = e.total_reward
             /\ num_iterations = e.num_iterations /\ history = e.history
  /\ op = "MultiBandit" /\ NoCall /\ err = None
  /\ NoArm /\ NoArrays /\ NoOther

\* MultiBandit(n_arms) used directly, or inside simulate_bandit(n_arms, ...,
\* n_iterations, strategy) at the head of its loop
InitArray ==
  /\ prog = "array"
  /\ \E n \in -1 .. MaxArms :
       /\ n_arms = n
       /\ err = MB_init_raises(n)
       /\ LET b == MB_init(n)
          IN  counts = b.counts /\ values = b.values /\ rewards = b.rewards
       /\ \/ /\ strategy = None /\ n_iterations = 0 /\ op = "MultiBandit"
             /\ pc = IF MB_init_raises(n) # None THEN "failed" ELSE "ready"
          \/ /\ strategy \in Strategies /\ n_iterations \in 0 .. MaxSteps
             /\ op = "simulate_bandit"
             /\ pc = IF MB_init_raises(n) # None THEN "failed"
                     ELSE IF n_iterations > 0 THEN "loop" ELSE "returned"
  /\ t = 0 /\ beta_params = None
  /\ NoCall /\ NoPackage /\ NoArm /\ NoOther

\* MultiBandit(epsilon, theta, time) at the head of its loop, or returned
\* already when range(time) is empty
InitFn ==
  /\ prog = "function"
  /\ \E theta \in (UNION {[0 .. (k - 1) -> Thetas] : k \in 0 .. MaxArms})
                    \cup ScenarioThetas :
       arms = initArm(theta)
  /\ fn_epsilon \in FnEpsilons
  /\ time \in -1 .. MaxTime
  /\ fn_t = 0
  /\ op = "MultiBandit" /\ arg = None /\ branch = None /\ err = None
  /\ pc = IF time >= 1 THEN "loop" ELSE "returned"
  /\ ret = IF time >= 1 THEN None ELSE <<SumRewords(arms), arms>>
  /\ NoPackage /\ NoArm /\ NoArrays /\ NoShared /\ NoEmitter /\ NoCi /\ NoSweep

\* bandits = [...]; first = MultiBandit(bandits, e1); second = MultiBandit(bandits, e2)
InitShared ==
  /\ prog = "shared" /\ pc = "ready"
  /\ \E k \in 1 .. MaxArms : \E tms \in [0 .. (k - 1) -> EngineMeans] :
       \E e1, e2 \in {R(0), DefaultEpsilon} :
         LET bs == [i \in 0 .. (k - 1) |-> Bandit_init(tms[i])]
             f == MultiBandit_init(bs, e1)
             g == MultiBandit_init(bs, e2)
         IN  /\ bandits = bs /\ epsilon = f.epsilon
             /\ total_reward = f.total_reward
             /\ num_iterations = f.num_iterations /\ history = f.history
             /\ second = [epsilon |-> g.epsilon, total_reward |-> g.total_reward,
                          num_iterations |-> g.num_iterations,
                          history |-> g.history]
  /\ op = "MultiBandit" /\ NoCall /\ err = None
  /\ NoArm /\ NoArrays /\ NoFn /\ NoEmitter /\ NoCi /\ NoSweep

\* history = MultiBandit(bandits, epsilon).run(n) (the empty list for n = 0)
\* and emitter = GraphEmitter(); every arm has true mean 0.5, so both
\* rewards occur
InitEmitter ==
  /\ prog = "emitter" /\ pc = "ready"
  /\ \E k \in 1 .. MaxArms : \E n \in 0 .. MaxRun :
       \E e \in RunResults(MultiBandit_init([i \in 0 .. (k - 1) |->
                                               Bandit_init(<<1, 2>>)],
                                            DefaultEpsilon),
                           DefaultEpsilon, n) :
         /\ bandits = e.bandits /\ epsilon = DefaultEpsilon
         /\ total_reward = e.total_reward
         /\ num_iterations = e.num_iterations /\ history = e.history
  /\ data = EmptyDict
  /\ op = "GraphEmitter" /\ NoCall /\ err = None
  /\ NoArm /\ NoArrays /\ NoFn /\ NoShared /\ NoCi /\ NoSweep

\* a call ci_halfwidth(vals) about to be made, with or without scipy
InitCi ==
  /\ prog = "ci" /\ pc = "ready"
  /\ arg \in UNION {[1 .. n -> Observations] : n \in 0 .. MaxVals}
  /\ have_scipy \in BOOLEAN
  /\ op = None /\ ret = None /\ branch = None /\ err = None
  /\ NoPackage /\ NoArm /\ NoArrays /\ NoFn /\ NoShared /\ NoEmitter /\ NoSweep

\* the arguments of run_experiment(times, repeats, epsilon, theta)
TimesArgs(sw) ==
  \E xs \in SweepTimes, n \in SweepRepeats, th \in SweepThetas :
    sw = [mode |-> "times", xs |-> xs, repeats |-> n, epsilon |-> DefaultEpsilon,
          theta |-> th, fixed_time |-> None, samples |-> None, seed |-> NoSeed]
\* of run_experiment_over_epsilons(fixed_time, repeats, epsilons, theta)
EpsilonsArgs(sw) ==
  \E xs \in SweepEpsilons, n \in SweepRepeats, th \in SweepThetas :
    sw = [mode |-> "epsilons", xs |-> xs, repeats |-> n, epsilon |-> None,
          theta |-> th, fixed_time |-> 1, samples |-> None, seed |-> NoSeed]
\* of run_experiment_over_Ks(Ks, repeats, fixed_time, epsilon, mean, std,
\* samples, seed)
KsArgs(sw) ==
  \E xs \in SweepKs, n \in SweepRepeats, m \in SweepSamples, sd \in SweepSeeds :
    sw = [mode |-> "Ks", xs |-> xs, repeats |-> n, epsilon |-> DefaultEpsilon,
          theta |-> None, fixed_time |-> 1, samples |-> m, seed |-> sd]

\* a sweep at the head of its loop over the settings
InitSweep ==
  /\ prog = "sweep"
  /\ (TimesArgs(sweep) \/ EpsilonsArgs(sweep) \/ KsArgs(sweep))
  /\ have_scipy \in BOOLEAN
  /\ loop = [i |-> 1, s |-> 0, r |-> 0]
  /\ exec = ExecInit /\ twin = None /\ converged = None
  /\ pc = StartPc(sweep)
  /\ op = sweep.mode /\ NoCall /\ err = None
  /\ NoPackage /\ NoArm /\ NoArrays /\ NoFn /\ NoShared /\ NoEmitter

\* two executions of run_experiment_over_Ks with the same arguments, one
\* trial per theta draw
InitTwin ==
  /\ prog = "twin"
  /\ KsArgs(sweep) /\ sweep.repeats = 1
  /\ have_scipy \in BOOLEAN
  /\ loop = [i |-> 1, s |-> 0, r |-> 0]
  /\ exec = ExecInit /\ twin = ExecInit /\ converged = None
  /\ pc = StartPc(sweep)
  /\ op = sweep.mode /\ NoCall /\ err = None
  /\ NoPackage /\ NoArm /\ NoArrays /\ NoFn /\ NoShared /\ NoEmitter

vars == <<prog, pc, op, arg, ret, err, branch, bandit, fed,
          bandits, epsilon, total_reward, num_iterations, history,
          n_arms, counts, values, rewards, strategy, n_iterations, t, beta_params,
          arms, fn_epsilon, time, fn_t, second, data, have_scipy,
          sweep, loop, exec, twin, converged>>

NextArm == update \/ pull
NextPackage == select_arm \/ run_iteration \/ run \/ get_best_arm
NextArray ==
  \/ simulate_bandit
  \/ select_arm_epsilon_greedy \/ select_arm_ucb \/ select_arm_thompson_sampling
  \/ MultiBandit_update \/ MB_get_best_arm \/ reset

NextFn == MultiBandit
NextShared == first_run_iteration \/ second_run_iteration
NextCi == ci_halfwidth
NextTwin == draw_theta \/ trial \/ close_setting \/ finish
NextSweep == NextTwin \/ plot
NextEmitter ==
  \/ emit_performance_data \/ emit_arm_selection_data
  \/ emit_arm_estimates_data \/ emit_ascii_graph

Init ==
  \/ InitArm \/ InitPackage \/ InitArray \/ InitFn \/ InitShared \/ InitEmitter
  \/ InitCi \/ InitSweep \/ InitTwin
Next ==
  \/ NextArm \/ NextPackage \/ NextArray \/ NextFn \/ NextShared \/ NextEmitter
  \/ NextCi \/ NextSweep
Spec == Init /\ [][Next]_vars
SpecArm == InitArm /\ [][NextArm]_vars
SpecPackage == InitPackage /\ [][NextPackage]_vars
SpecArray == InitArray /\ [][NextArray]_vars
SpecFn == InitFn /\ [][NextFn]_vars
SpecShared == InitShared /\ [][NextShared]_vars
SpecEmitter == InitEmitter /\ [][NextEmitter]_vars
SpecCi == InitCi /\ [][NextCi]_vars
SpecSweep == InitSweep /\ [][NextSweep]_vars
SpecTwin == InitTwin /\ [][NextTwin]_vars

\* ================================================================ claims
IsPackage == prog = "package"
IsArm == prog = "arm"
IsArray == prog = "array"

\* sum of the pull counts of the arms
SumPulls(bs) == SumOver([i \in DOMAIN bs |-> R(bs[i].num_pulls)], DOMAIN bs)
\* sum over the arms of estimated_mean * num_pulls
SumMeanPulls(bs) ==
  SumOver([i \in DOMAIN bs |-> RMul(bs[i].estimated_mean, R(bs[i].num_pulls))],
          DOMAIN bs)
\* sum of the rewards of the records of h
SumRewards(h) == SumOver([i \in DOMAIN h |-> h[i].reward], DOMAIN h)
\* arithmetic mean of a sequence of rationals, 0 for the empty one
MeanOf(s) == IF Len(s) = 0 THEN R(0) ELSE RDiv(SumOver(s, DOMAIN s), R(Len(s)))
\* the orders in which n rewards can be supplied
Orders(n) == {f \in [1 .. n -> 1 .. n] : \A i, j \in 1 .. n : f[i] = f[j] => i = j}

RECURSIVE UpdatedBy(_, _, _)
\* the arm b after update(s[1]), ..., update(s[n])
UpdatedBy(b, s, n) ==
  IF n = 0 THEN b ELSE Bandit_update(UpdatedBy(b, s, n - 1), s[n])

InvalidConfig == NumArms(bandits) = 0 \/ ~InUnit(epsilon)

\* C1: run(num_iterations) with num_iterations <= 0 raises ValueError and
\* executes no step (counters, history and arms unchanged); stated for the
\* engines with at least one arm and an epsilon in [0,1].
C1_RunInvalidRaises ==
  [][(IsPackage /\ ~InvalidConfig /\ op' = "run" /\ arg' <= 0)
       => (err' = "ValueError" /\ UNCHANGED EngineVars)]_vars

\* C2: constructing MultiBandit with an empty arm list or an epsilon outside
\* [0,1] raises ValueError, so no operation ever runs on such an engine.
C2_InvalidConfigRaises ==
  (IsPackage /\ InvalidConfig) => (op = "MultiBandit" /\ err = "ValueError")

\* C3: Bandit(true_mean) raises ValueError for true_mean outside [0,1]; inside
\* [0,1] the arm starts with estimated_mean 0 and num_pulls 0.
C3_BanditInitChecked ==
  (IsArm /\ op = "Bandit") =>
     IF InUnit(bandit.true_mean)
       THEN err = None /\ bandit.estimated_mean = R(0) /\ bandit.num_pulls = 0
       ELSE err = "ValueError"

\* C4: on an engine built from fresh arms, num_iterations = sum of num_pulls =
\* len(history) in every state, and each run(n), n >= 1, returns having raised
\* all three by exactly n, whatever steps were executed before it.
C4_CountersAgree ==
  /\ [](IsPackage =>
          /\ R(num_iterations) = SumPulls(bandits)
          /\ num_iterations = Len(history))
  /\ [][(IsPackage /\ NumArms(bandits) >= 1 /\ op' = "run" /\ arg' >= 1)
          => /\ err' = None
             /\ num_iterations' = num_iterations + arg'
             /\ SumPulls(bandits') = RAdd(SumPulls(bandits), R(arg'))
             /\ Len(history') = Len(history) + arg']_vars

\* a run(2) that returned on an engine that had executed a step before
C4_Witness ==
  IsPackage /\ op = "run" /\ arg = 2 /\ err = None /\ num_iterations = 3

\* C5: total_reward = sum over arms of estimated_mean * num_pulls = sum of the
\* rewards of the history records = number of reward-1 records.
C5_TotalReward ==
  IsPackage =>
     /\ total_reward = SumMeanPulls(bandits)
     /\ total_reward = SumRewards(history)
     /\ total_reward = R(Cardinality({i \in DOMAIN history : history[i].reward = R(1)}))

\* three steps with rewards 1, 0, 1, two of them on one arm
C5_Witness ==
  /\ IsPackage /\ num_iterations = 3 /\ total_reward = R(2)
  /\ \E i \in DOMAIN bandits :
       bandits[i].num_pulls = 2 /\ bandits[i].estimated_mean = <<1, 2>>

\* C6: after n updates with rewards r1..rn an arm has num_pulls = n and
\* estimated_mean = (r1+...+rn)/n (0 for n = 0), and supplying the same rewards
\* in any other order gives the same arm; the array engine's update keeps
\* counts[a] = len(rewards[a]) and values[a] = mean of rewards[a].
C6_MeanOfRewards ==
  /\ IsArm =>
       /\ bandit.num_pulls = Len(fed)
       /\ bandit.estimated_mean = MeanOf(fed)
       /\ \A f \in Orders(Len(fed)) :
            UpdatedBy(Bandit_init(bandit.true_mean),
                      [i \in 1 .. Len(fed) |-> fed[f[i]]], Len(fed)) = bandit
  /\ (IsArray /\ pc # "failed") =>
       \A a \in 0 .. (n_arms - 1) :
         counts[a] = Len(rewards[a]) /\ values[a] = MeanOf(rewards[a])

\* update(1.0), update(0.0), update(2.0): mean 1
C6_Witness ==
  IsArm /\ fed = <<R(1), R(0), R(2)>> /\ bandit.estimated_mean = R(1)
    /\ bandit.num_pulls = 3

SelectOps ==
  {"select_arm", "select_arm_epsilon_greedy", "select_arm_ucb",
   "select_arm_thompson_sampling"}

\* C7: every arm-selection operation leaves pull counts, estimated means, run
\* totals and history unchanged and, on an engine with K >= 1 arms, returns
\* an index in 0..K-1.
C7_SelectionInRangeNoMutation ==
  [][(op' \in SelectOps) =>
       /\ UNCHANGED <<EngineVars, ArrayVars>>
       /\ LET K == IF IsPackage THEN NumArms(bandits) ELSE n_arms
          IN  K >= 1 => (err' = None /\ ret' \in 0 .. (K - 1))]_vars

\* the bonus formula of select_arm_ucb returned the last arm after three updates
C7_Witness ==
  /\ IsArray /\ op = "select_arm_ucb" /\ branch = "formula"
  /\ n_arms = 2 /\ ret = 1 /\ SumCounts(counts) = 3

\* C8: in the exploit branch every arm that shares the maximal estimated mean
\* is a possible result of select_arm, and only those are; stated for the
\* engines with at least one arm and an epsilon in [0,1).
C8_ExploitAnyTied ==
  (IsPackage /\ ~InvalidConfig /\ RLt(epsilon, R(1))) =>
     \A j \in DOMAIN bandits :
        (j \in MaxMeanArms(bandits))
          <=> ENABLED (select_arm /\ branch' = "exploit" /\ ret' = j)

InUcbRun == IsArray /\ strategy = "ucb" /\ op = "simulate_bandit" /\ pc # "failed"

\* C9: in a UCB run of simulate_bandit over K arms, after step t <= K exactly
\* the arms 0..t-1 have been pulled, so from step K on every arm has a pull;
\* an unpulled arm is chosen whenever one exists, and select_arm_ucb reaches
\* its bonus formula only in states where every arm has counts >= 1.
C9_UcbForcedExploration ==
  /\ [](InUcbRun =>
          \A a \in 0 .. (n_arms - 1) :
            /\ t >= n_arms => counts[a] >= 1
            /\ t <= n_arms => counts[a] = (IF a < t THEN 1 ELSE 0))
  /\ [][(IsArray /\ op' \in {"simulate_bandit", "select_arm_ucb"}
           /\ (op' = "simulate_bandit" => strategy = "ucb") /\ err' = None)
          => /\ branch' = "formula" => \A a \in 0 .. (n_arms - 1) : counts[a] >= 1
             /\ (\E a \in 0 .. (n_arms - 1) : counts[a] = 0) => counts[ret'] = 0]_vars

\* a UCB run over 2 arms whose third step applied the bonus formula
C9_Witness ==
  InUcbRun /\ n_arms = 2 /\ t = 3 /\ branch = "formula"

\* C10: Thompson sampling draws arm a's sample from Beta(1 + successes,
\* 1 + failures) with successes = counts[a] * values[a] and
\* failures = counts[a] - successes (prior alpha = beta = 1).
C10_ThompsonPosterior ==
  (IsArray /\ op = "select_arm_thompson_sampling"
     /\ arg = <<DefaultAlpha, DefaultBeta>>) =>
    \A a \in 0 .. (n_arms - 1) :
      LET successes == RMul(R(counts[a]), values[a])
          failures == RSub(R(counts[a]), successes)
      IN  /\ R(beta_params[a][1]) = RAdd(R(1), successes)
          /\ R(beta_params[a][2]) = RAdd(R(1), failures)

\* C11: get_best_arm() returns an index whose estimated mean is maximal over
\* all arms and, among the arms with that mean, the lowest index (index 0 on
\* a fresh engine); the call changes no statistic of the engine.  Both
\* engines; the package engine with at least one arm.
C11_BestArmFirstMaximal ==
  [][(op' = "get_best_arm" /\ (IsPackage => NumArms(bandits) >= 1))
       => /\ err' = None
          /\ UNCHANGED <<EngineVars, ArrayVars>>
          /\ IsPackage =>
               /\ ret' \in DOMAIN bandits
               /\ \A j \in DOMAIN bandits :
                    /\ RLe(bandits[j].estimated_mean, bandits[ret'].estimated_mean)
                    /\ j < ret' => RLt(bandits[j].estimated_mean,
                                       bandits[ret'].estimated_mean)
               /\ num_iterations = 0 => ret' = 0
          /\ IsArray =>
               /\ ret' \in 0 .. (n_arms - 1)
               /\ \A j \in 0 .. (n_arms - 1) :
                    /\ RLe(values[j], values[ret'])
                    /\ j < ret' => RLt(values[j], values[ret'])
               /\ SumCounts(counts) = 0 => ret' = 0]_vars

\* two arms tied at the maximal mean 1, the best arm reported is the first
C11_Witness ==
  /\ IsPackage /\ op = "get_best_arm" /\ NumArms(bandits) = 2
  /\ bandits[0].estimated_mean = R(1) /\ bandits[1].estimated_mean = R(1)
  /\ ret = 0

OneCertain(p) ==
  /\ DOMAIN p = 0 .. (ScenarioArms - 1)
  /\ \E one \in DOMAIN p : \A i \in DOMAIN p : p[i] = (IF i = one THEN R(1) ELSE R(0))

\* C12: in a run over ScenarioArms = 5 Bernoulli arms whose true
\* probabilities are all 0.0 except one arm at 1.0, after every step and
\* whatever arms are chosen, the total reward equals the pull count of the
\* probability-1.0 arm: a probability-0 arm never yields 1 and the
\* probability-1 arm never yields 0.  Package engine and function MultiBandit.
C12_CertainArmScenario ==
  /\ (IsPackage
        /\ OneCertain([i \in DOMAIN bandits |-> bandits[i].true_mean]))
       => \A i \in DOMAIN bandits :
            /\ bandits[i].true_mean = R(1)
                 => /\ total_reward = R(bandits[i].num_pulls)
                    /\ bandits[i].num_pulls >= 1 => bandits[i].estimated_mean = R(1)
            /\ bandits[i].true_mean = R(0) => bandits[i].estimated_mean = R(0)
  /\ (prog = "function" /\ OneCertain([i \in DOMAIN arms |-> arms[i].theta]))
       => \A i \in DOMAIN arms :
            /\ arms[i].theta = R(1)
                 => /\ SumRewords(arms) = arms[i].numOfTimes
                    /\ arms[i].rewords = arms[i].numOfTimes
            /\ arms[i].theta = R(0) => arms[i].rewords = 0

\* three steps of the scenario in which the certain arm was pulled twice and
\* another arm once
C12_Witness ==
  /\ IsPackage /\ NumArms(bandits) = ScenarioArms /\ num_iterations = 3
  /\ bandits[2].true_mean = R(1) /\ bandits[2].num_pulls = 2
  /\ bandits[4].num_pulls = 1 /\ total_reward = R(2)

C18_ExclusiveArms ==
  prog = "shared" =>
    /\ R(num_iterations) = SumPulls(Engine.bandits)
    /\ R(second.num_iterations) = SumPulls(SecondEngine.bandits)

\* C18 (amended): the engines share the arms they were constructed from: a
\* step of either engine changes the one set of arm statistics both read,
\* whose pull counts sum to the two engines' num_iterations together; an
\* engine's own num_iterations, total_reward and history are changed by its
\* own steps only, and its history has num_iterations records.
C18_SharedArms ==
  /\ [](prog = "shared" =>
          /\ SumPulls(bandits) = R(num_iterations + second.num_iterations)
          /\ Len(history) = num_iterations
          /\ Len(second.history) = second.num_iterations
          /\ RAdd(total_reward, second.total_reward) = SumMeanPulls(bandits))
  /\ [][prog = "shared" =>
          /\ arg' = "first" => second' = second
          /\ arg' = "second" => UNCHANGED <<epsilon, total_reward,
                                            num_iterations, history>>]_vars

\* the first engine stepped once and the second twice on the shared arms
C18_Witness ==
  /\ prog = "shared" /\ num_iterations = 1 /\ second.num_iterations = 2
  /\ SumPulls(bandits) = R(3)

\* C20: emit_ascii_graph(history, width) raises ValueError for every
\* width <= 0 on a non-empty history; for an empty history it returns the
\* text "No data to graph" and emit_performance_data returns {} without
\* failing.
C20_AsciiGraphWidthChecked ==
  [][prog = "emitter" =>
       /\ (op' = "emit_ascii_graph" /\ Len(history) > 0 /\ arg' <= 0)
            => err' = "ValueError"
       /\ (op' = "emit_ascii_graph" /\ Len(history) = 0)
            => (err' = None /\ ret' = "No data to graph")
       /\ (op' = "emit_performance_data" /\ Len(history) = 0)
            => (err' = None /\ ret' = EmptyDict)]_vars

\* the sum of the squares of the observations
SumSquares(v) == SumOver([i \in DOMAIN v |-> RMul(v[i], v[i])], DOMAIN v)

\* C14: ci_halfwidth(vals, conf) returns exactly 0 for every input with 0 or
\* 1 observations, without raising, and for n >= 2 returns
\* critical_value * s / sqrt(n), which is never negative (s the sample
\* standard deviation: s^2 = (sum x^2 - n * mean^2) / (n - 1), and the
\* critical value the t quantile with n - 1 degrees of freedom, or 1.96
\* without scipy).
C14_HalfwidthZeroOrFormula ==
  [][(prog = "ci" /\ op' = "ci_halfwidth")
       => LET n == Len(arg)
          IN  /\ err' = None
              /\ n <= 1 => (HwSign(ret') = 0 /\ ret' = Hw(R(0), R(0)))
              /\ n >= 2 =>
                   /\ ret'.crit = (IF have_scipy THEN TCrit(n - 1) ELSE ZCrit)
                   /\ RMul(ret'.se2, R(n * (n - 1))) =
                        RSub(SumSquares(arg),
                             RMul(R(n), RMul(MeanOf(arg), MeanOf(arg))))
                   /\ HwSign(ret') >= 0
                   /\ HwSign(ret') = 0 <=> \A i \in 1 .. n : arg[i] = arg[1]]_vars

\* the half-width of the three observations 0, 2, 1 with scipy: 4.30 / sqrt(3)
C14_Witness ==
  /\ prog = "ci" /\ op = "ci_halfwidth" /\ have_scipy
  /\ arg = <<R(0), R(2), R(1)>> /\ ret = Hw(<<43, 10>>, <<1, 3>>)

\* the number of values the outcome set of one setting is to hold
OutcomesPerSetting(sw) ==
  IF sw.mode = "Ks" THEN sw.samples * sw.repeats ELSE sw.repeats

\* C15: for every swept setting the sweep runs exactly repeats trials, each
\* starting from arms with zero pull counts and zero accumulated reward
\* (after a trial of horizon T the arms it returns hold T pulls together,
\* and its outcome is their summed reward), so the outcome set of a time or
\* epsilon setting has exactly repeats values; the sweep over K pools the
\* repeats of all samples theta draws: samples * repeats values per K.
C15_TrialsPerSetting ==
  /\ [](prog = "sweep" =>
          /\ \A i \in DOMAIN exec.all_vals :
               Len(exec.all_vals[i]) = OutcomesPerSetting(sweep)
          /\ Len(exec.vals) <= OutcomesPerSetting(sweep)
          /\ pc \in {"close", "finish", "returned", "plotted"}
               => Len(exec.vals) = OutcomesPerSetting(sweep))
  /\ [][(prog = "sweep" /\ op' = "trial" /\ err' = None)
          => LET as == exec'.out[2]
                 T == TimeOf(sweep, loop.i)
             IN  /\ Len(exec'.vals) = Len(exec.vals) + 1
                 /\ SumInts([a \in DOMAIN as |-> as[a].numOfTimes], DOMAIN as)
                      = (IF T > 0 THEN T ELSE 0)
                 /\ \A a \in DOMAIN as : as[a].rewords <= as[a].numOfTimes
                 /\ exec'.vals[Len(exec'.vals)] = R(SumRewords(as))
                 /\ RLe(exec'.vals[Len(exec'.vals)], R(IF T > 0 THEN T ELSE 0))]_vars

\* a finished sweep over K = 2, 1 with two theta draws and two repeats: four
\* outcomes per K
C15_Witness ==
  /\ prog = "sweep" /\ pc = "returned" /\ sweep.mode = "Ks"
  /\ sweep.xs = <<2, 1>> /\ sweep.samples = 2 /\ sweep.repeats = 2
  /\ Len(exec.all_vals) = 2
  /\ Len(exec.all_vals[1]) = 4 /\ Len(exec.all_vals[2]) = 4

\* C16: each swept setting is classified converged if and only if its CI
\* half-width normalized by the horizon is <= the configured threshold
\* (equality counts as converged), and not converged otherwise; every
\* setting falls in exactly one of the two classes.
C16_ConvergedIffWithinThreshold ==
  (prog = "sweep" /\ pc = "plotted") =>
    /\ converged.blue \cup converged.red = DOMAIN sweep.xs
    /\ converged.blue \cap converged.red = {}
    /\ \A i \in DOMAIN sweep.xs :
         LET h == ci_halfwidth_value(exec.all_vals[i], have_scipy)
             bound == RMul(arg, R(TimeOf(sweep, i)))
         IN  i \in converged.blue <=>
               RLe(RMul(RMul(h.crit, h.crit), h.se2), RMul(bound, bound))

\* threshold 0: the first setting, whose two outcomes agree, has half-width
\* 0 and is converged by equality; the second, with outcomes 0 and 1, is not
C16_Witness ==
  /\ prog = "sweep" /\ pc = "plotted" /\ arg = R(0)
  /\ sweep.mode = "times" /\ sweep.xs = <<2, 1>>
  /\ exec.all_vals = <<<<R(1), R(1)>>, <<R(0), R(1)>>>>
  /\ converged.blue = {1} /\ converged.red = {2}

\* C19 (as claimed): all randomness of a sweep derives from the seeded
\* generator: two executions of the sweep over K with the same seed and the
\* same arguments produce identical theta vectors and identical raw outcome
\* sets.
C19_SeedDeterminesSweep ==
  (prog = "twin" /\ sweep.seed # NoSeed) =>
    /\ exec.theta_list = twin.theta_list
    /\ exec.vals = twin.vals
    /\ exec.all_vals = twin.all_vals

\* C19 (amended): the seed determines the theta vectors only: two
\* executions of the sweep over K with the same seed and arguments draw
\* identical theta vectors at every step and collect outcome sets of the
\* same sizes, while the outcomes themselves come from the random module,
\* which the seed does not reach.
C19_SeedDeterminesThetas ==
  (prog = "twin" /\ sweep.seed # NoSeed) =>
    /\ exec.theta_list = twin.theta_list
    /\ exec.rng_pos = twin.rng_pos
    /\ Len(exec.vals) = Len(twin.vals)
    /\ Len(exec.all_vals) = Len(twin.all_vals)
    /\ \A i \in DOMAIN exec.all_vals :
         Len(exec.all_vals[i]) = Len(twin.all_vals[i])

\* two finished executions with seed 0 that drew the same theta vectors and
\* collected different outcomes
C19_Witness ==
  /\ prog = "twin" /\ sweep.seed = <<0>> /\ pc = "returned"
  /\ sweep.xs = <<2, 1>> /\ sweep.samples = 2
  /\ exec.theta_list = twin.theta_list
  /\ exec.all_vals # twin.all_vals

\* C21: one run_iteration mutates exactly one arm: the chosen arm's num_pulls
\* grows by exactly 1 and every other arm keeps its num_pulls and its
\* estimated_mean; no step of the engine changes an arm's true_mean or the
\* number of arms, and no step lowers an arm's num_pulls.
C21_StepMutatesOneArm ==
  [][IsPackage =>
       /\ DOMAIN bandits' = DOMAIN bandits
       /\ \A i \in DOMAIN bandits :
            /\ bandits'[i].true_mean = bandits[i].true_mean
            /\ bandits'[i].num_pulls >= bandits[i].num_pulls
       /\ op' = "run_iteration" /\ err' = None =>
            /\ Len(history') = Len(history) + 1
            /\ LET chosen == history'[Len(history')].arm
               IN  /\ chosen \in DOMAIN bandits
                   /\ bandits'[chosen].num_pulls = bandits[chosen].num_pulls + 1
                   /\ \A i \in DOMAIN bandits \ {chosen} :
                        /\ bandits'[i].num_pulls = bandits[i].num_pulls
                        /\ bandits'[i].estimated_mean = bandits[i].estimated_mean]_vars

\* a third run_iteration over two arms that chose the arm the step before it
\* did not, so the other arm had a pull and an estimate of 1 to keep
C21_Witness ==
  /\ IsPackage /\ NumArms(bandits) = 2 /\ Len(history) = 3
  /\ op = "run_iteration" /\ err = None
  /\ history[3].arm # history[2].arm
  /\ bandits[history[2].arm].num_pulls >= 1
  /\ bandits[history[2].arm].estimated_mean = R(1)

IsFunction == prog = "function"
\* sum(a["numOfTimes"] for a in arms)
SumTimes(as) == SumInts([i \in DOMAIN as |-> as[i].numOfTimes], DOMAIN as)
\* the counters of the function engine after every pass of its loop
FnCounters ==
  /\ \A i \in DOMAIN arms :
       0 <= arms[i].rewords /\ arms[i].rewords <= arms[i].numOfTimes
  /\ SumTimes(arms) = fn_t
\* the passes a call with argument time makes: range(time) is empty for
\* time <= 0
Passes == IF time >= 0 THEN time ELSE 0

SingleOutcome ==
  sweep.repeats = 1 /\ (sweep.mode = "Ks" => sweep.samples = 1)

\* C23: a swept setting whose outcome set has a single value (repeats = 1,
\* and samples = 1 when sweeping K) gets CI half-width 0 and is classified
\* converged for every threshold >= 0, whatever the outcome and the horizon.
C23_SingleOutcomeConverged ==
  (prog = "sweep" /\ SingleOutcome) =>
    /\ pc \in {"returned", "plotted"} =>
         \A i \in DOMAIN sweep.xs :
           /\ Len(exec.all_vals[i]) = 1
           /\ ret.per_step_cis[i] = Hw(R(0), R(0))
    /\ (pc = "plotted" /\ RLe(R(0), arg)) =>
         converged.blue = DOMAIN sweep.xs /\ converged.red = {}

\* the sweep over the horizons 2 and 1 with one trial each, outcomes 2 and
\* 0, plotted with threshold 0
C23_Witness ==
  /\ prog = "sweep" /\ pc = "plotted" /\ arg = R(0)
  /\ sweep.mode = "times" /\ sweep.xs = <<2, 1>> /\ SingleOutcome
  /\ exec.all_vals = <<<<R(2)>>, <<R(0)>>>>
  /\ converged.blue = {1, 2}

====
